---- MODULE Spec2Model ----
(***************************************************************************)
(* Model of the Mammoth scene exporter (src/src/exporter.py).              *)
(*                                                                         *)
(* MammothExporter.execute collects the host collections, calls process,   *)
(* which calls export_objects, export_meshes, export_lights,               *)
(* export_cameras and export_materials in this order, and then writes the  *)
(* document to the output file.  A Python exception is modelled as a       *)
(* result record with raised = TRUE; floats are modelled by integers.      *)
(***************************************************************************)
EXTENDS Integers, Sequences, FiniteSets, TLC

VARIABLES
    pc,             \* position of execute / process / export_mesh
    objects,        \* bpy.data.objects
    layout,         \* bpy.mammothComponentsLayout, as an ordered list of items
    meshes,         \* bpy.data.meshes (triangulated in place by export_mesh)
    lights,         \* bpy.data.lamps
    cameras,        \* bpy.data.cameras
    materials,      \* bpy.data.materials
    pretty_print,   \* the operator's pretty_print property
    data,           \* the entries of the dict built by process, in evaluation order
    exc,            \* the exception that left execute, or None
    fout,           \* the output file
    local,          \* the locals of export_meshes and of the running export_mesh
    ops             \* history: the host mesh calls made so far, <<call, mesh number>>

vars == <<pc, objects, layout, meshes, lights, cameras, materials,
          pretty_print, data, exc, fout, local, ops>>

None == "None"

\* ------------------------------------------------------------------------
\* Exceptions and list comprehensions
\* ------------------------------------------------------------------------

Return(v) == [raised |-> FALSE, value |-> v]

Raise(kind, what, arg) == [raised |-> TRUE, exc |-> [kind |-> kind, what |-> what, arg |-> arg]]

Min(S) == CHOOSE x \in S : \A y \in S : x <= y

Flatten(seqs) ==
    LET RECURSIVE flat(_)
        flat(i) == IF i > Len(seqs) THEN <<>> ELSE seqs[i] \o flat(i + 1)
    IN  flat(1)

\* [f(x) for x in xs]: the results in order, or the first exception raised.
ListComp(results) ==
    LET bad == {i \in 1..Len(results) : results[i].raised}
    IN  IF bad # {} THEN results[Min(bad)]
        ELSE Return([i \in 1..Len(results) |-> results[i].value])

\* ------------------------------------------------------------------------
\* export_objects
\* ------------------------------------------------------------------------

ScalarTypes == {"int", "float", "bool", "string"}

VectorTypes == {"ivec2", "ivec3", "ivec4", "vec2", "vec3", "vec4", "colour"}

\* [i for i in value]: the components of a host vector, in order.
ListOf(value) == [i \in 1..Len(value.array) |-> value.array[i]]

\* One attribute of an active component: the value stored under its name.
export_attribute(comp, key, attribute) ==
    IF attribute.type \in ScalarTypes
    THEN Return(comp.values[attribute.name])
    ELSE IF attribute.type \in VectorTypes
         THEN Return(ListOf(comp.values[attribute.name]))
         ELSE Raise("TypeError", "attribute", <<attribute.type, attribute.name, key>>)

\* components[key] for an active component: its attributes in schema order.
export_component(comp, key, attributes) ==
    LET rs == [i \in 1..Len(attributes) |-> export_attribute(comp, key, attributes[i])]
        r  == ListComp(rs)
    IN  IF r.raised THEN r
        ELSE Return([n \in {attributes[i].name : i \in 1..Len(attributes)} |->
                        LET i == CHOOSE j \in 1..Len(attributes) :
                                    /\ attributes[j].name = n
                                    /\ \A k \in (j+1)..Len(attributes) : attributes[k].name # n
                        IN  r.value[i]])

IsActiveMutant(comp) == TRUE

IsActive(comp) == comp.internal___active

\* The components dict of one object.
export_components(obj, lay) ==
    LET act == {i \in 1..Len(lay) : IsActive(obj.components[lay[i].key])}
        rs  == [i \in 1..Len(lay) |->
                   IF i \in act
                   THEN export_component(obj.components[lay[i].key], lay[i].key, lay[i].attributes)
                   ELSE Return(None)]
        r   == ListComp(rs)
    IN  IF r.raised THEN r
        ELSE Return([k \in {lay[i].key : i \in act} |->
                        r.value[CHOOSE i \in act : lay[i].key = k]])

sort_quatMutant(quat) == <<quat[1], quat[2], quat[3], quat[4]>>

sort_quat(quat) ==
    LET q == [i \in 1..Len(quat) |-> quat[i]]
    IN  <<q[2], q[3], q[4], q[1]>>

\* obj.children: the objects whose parent is obj, in collection order.
Children(objs, o) ==
    LET RECURSIVE from(_)
        from(i) == IF i > Len(objs) THEN <<>>
                   ELSE IF objs[i].parent = o THEN <<i>> \o from(i + 1)
                        ELSE from(i + 1)
    IN  from(1)

\* The payload branch on obj.type.
export_payload(obj, node) ==
    IF obj.type = "MESH" THEN Return(node @@ ("mesh" :> obj.data.name))
    ELSE IF obj.type = "EMPTY" THEN Raise("NameError", "name", "passaa")
    ELSE IF obj.type = "CAMERA" THEN Return(node @@ ("camera" :> obj.data.name))
    ELSE IF obj.type = "LAMP" THEN Return(node @@ ("light" :> obj.data.name))
    ELSE Raise("TypeError", "object", <<obj.type, obj.name>>)

HasChildrenMutant(kids) == TRUE

HasChildren(kids) == Len(kids) > 0

RECURSIVE export_object(_, _, _)
export_object(objs, lay, o) ==
    LET obj  == objs[o]
        comp == export_components(obj, lay)
    IN  IF comp.raised THEN comp
        ELSE
        LET node == [name        |-> obj.name,
                     translation |-> [i \in 1..Len(obj.location) |-> obj.location[i]],
                     rotation    |-> sort_quat(obj.rotation_quaternion),
                     scale       |-> [i \in 1..Len(obj.scale) |-> obj.scale[i]]]
            kids == Children(objs, o)
            sub  == IF HasChildren(kids)
                    THEN ListComp([i \in 1..Len(kids) |-> export_object(objs, lay, kids[i])])
                    ELSE Return(<<>>)
        IN  IF sub.raised THEN sub
            ELSE
            LET node2 == IF HasChildren(kids) THEN node @@ ("children" :> sub.value) ELSE node
                node3 == IF DOMAIN comp.value # {}
                         THEN node2 @@ ("components" :> comp.value) ELSE node2
            IN  export_payload(obj, node3)

IsRoot(obj) == obj.parent = 0

export_objects(objs, lay) ==
    LET roots == SelectSeq([i \in 1..Len(objs) |-> i], LAMBDA i : IsRoot(objs[i]))
    IN  ListComp([i \in 1..Len(roots) |-> export_object(objs, lay, roots[i])])

\* ------------------------------------------------------------------------
\* export_meshes
\* ------------------------------------------------------------------------

\* A byte of the 4-byte encoding of x: which value it belongs to and which
\* of its bytes it is.  A fresh bytearray holds ZeroByte everywhere.
ZeroByte == 0

BytesPerField == 4

Pack1(x) == [b \in 1..BytesPerField |-> BytesPerField * x + b]

\* The value whose encoding starts at byte offset off (0-based) of buffer, or
\* None when these bytes are not the encoding of one value.
Unpack1(buffer, off) ==
    LET x == (buffer[off + 1] - 1) \div BytesPerField
    IN  IF /\ buffer[off + 1] # ZeroByte
           /\ \A b \in 1..BytesPerField : buffer[off + b] = BytesPerField * x + b
        THEN x ELSE None

\* struct.calcsize for formats of 'f' and 'i' fields (4 bytes each, aligned).
calcsize(fmt) == BytesPerField * Len(fmt)

bytearray(n) == [b \in 1..n |-> ZeroByte]

\* struct.pack_into(fmt, buffer, offset, *values)
pack_into(fmt, buffer, offset, values) ==
    IF offset + calcsize(fmt) > Len(buffer)
    THEN Raise("struct.error", "pack_into", <<offset, Len(buffer)>>)
    ELSE Return(SubSeq(buffer, 1, offset)
                \o Flatten([v \in 1..Len(fmt) |-> Pack1(values[v])])
                \o SubSeq(buffer, offset + calcsize(fmt) + 1, Len(buffer)))

\* History: how often each byte of a buffer has been written.
Touch(writes, offset, size) ==
    SubSeq(writes, 1, offset)
    \o [b \in 1..size |-> writes[offset + b] + 1]
    \o SubSeq(writes, offset + size + 1, Len(writes))

\* class Vertex
Vertex(mesh, loop) ==
    LET vi == loop.vertex_index
        i  == loop.index
    IN  [position |-> mesh.vertices[vi + 1].co,
         normal   |-> mesh.vertices[vi + 1].normal,
         uvs      |-> [l \in 1..Len(mesh.uv_layers) |-> mesh.uv_layers[l].data[i + 1].uv],
         colours  |-> [l \in 1..Len(mesh.vertex_colors) |->
                          mesh.vertex_colors[l].data[i + 1].color],
         index    |-> vi]

\* bmesh.ops.triangulate on one face: a fan from corner p.  corners is the
\* list of the face's loops; a triangle is left as it is.
FanOf(corners, p) ==
    LET n   == Len(corners)
        rot == [k \in 1..n |-> corners[((k - 1 + p) % n) + 1]]
    IN  IF n <= 3 THEN <<corners>>
        ELSE [t \in 1..(n - 2) |-> <<rot[1], rot[t + 1], rot[t + 2]>>]

\* The loops of polygon f of mesh, in corner order.
LoopsOf(mesh, f) ==
    [k \in 1..mesh.polygons[f].loop_total |-> mesh.loops[mesh.polygons[f].loop_start + k]]

triangulateMutant(mesh, p) == mesh

\* bm.from_mesh; bmesh.ops.triangulate; bm.to_mesh: every face becomes
\* triangles, the loops are rebuilt face by face and every loop layer keeps
\* the value of the corner the loop comes from.
triangulate(mesh, p) ==
    LET tris  == Flatten([f \in 1..Len(mesh.polygons) |-> FanOf(LoopsOf(mesh, f), p)])
        old   == Flatten(tris)
        relay(layer) == [data |-> [j \in 1..Len(old) |-> layer.data[old[j].index + 1]]]
    IN  [mesh EXCEPT
            !.polygons = [t \in 1..Len(tris) |->
                             [vertices   |-> [k \in 1..3 |-> tris[t][k].vertex_index],
                              loop_start |-> 3 * (t - 1),
                              loop_total |-> 3]],
            !.loops = [j \in 1..Len(old) |->
                          [vertex_index |-> old[j].vertex_index,
                           index        |-> j - 1,
                           normal       |-> <<0, 0, 0>>]],
            !.uv_layers = [l \in 1..Len(mesh.uv_layers) |-> relay(mesh.uv_layers[l])],
            !.vertex_colors = [l \in 1..Len(mesh.vertex_colors) |->
                                  relay(mesh.vertex_colors[l])]]

\* mesh.calc_normals_split: every loop gets its split normal.
calc_normals_split(mesh) ==
    [mesh EXCEPT !.loops = [j \in 1..Len(mesh.loops) |->
        [mesh.loops[j] EXCEPT !.normal = mesh.vertices[mesh.loops[j].vertex_index + 1].normal]]]

vertexSizeMutant(mesh) ==
    (3 + 3 + (Len(mesh.uv_layers) * 2) + (Len(mesh.vertex_colors) * 4)) * 4

vertexSize(mesh) ==
    (3 + 3 + (Len(mesh.uv_layers) * 2) + (Len(mesh.vertex_colors) * 3)) * 4

F(n) == [k \in 1..n |-> "f"]

\* The pack_into calls of one vertex, in order.
Segments(vertex) ==
    <<[fmt |-> F(6), values |-> vertex.position \o vertex.normal]>>
    \o [l \in 1..Len(vertex.uvs) |-> [fmt |-> F(2), values |-> vertex.uvs[l]]]
    \o [l \in 1..Len(vertex.colours) |->
           [fmt |-> F(3), values |-> SubSeq(vertex.colours[l], 1, 3)]]

\* The body of the loop over vertices, for one vertex: the buffer, the
\* offset and the write counts after it, or the exception raised.
RECURSIVE PackSegments(_, _, _, _, _)
PackSegments(segs, s, vData, i, writes) ==
    IF s > Len(segs) THEN Return([vData |-> vData, i |-> i, writes |-> writes])
    ELSE LET r == pack_into(segs[s].fmt, vData, i, segs[s].values)
         IN  IF r.raised THEN r
             ELSE PackSegments(segs, s + 1, r.value, i + calcsize(segs[s].fmt),
                               Touch(writes, i, calcsize(segs[s].fmt)))

\* base64.b64encode: the bytes in groups of 3, the last one padded.
b64encode(bytes) ==
    [groups |-> [g \in 1..((Len(bytes) + 2) \div 3) |->
                    SubSeq(bytes, 3 * g - 2, IF 3 * g <= Len(bytes) THEN 3 * g ELSE Len(bytes))],
     pad    |-> (3 - (Len(bytes) % 3)) % 3]

DataUri(bytes) == [prefix |-> "data:text/plain;base64,", b64 |-> b64encode(bytes)]

vertexDescription(mesh) ==
    <<"pos", "norm">> \o [l \in 1..Len(mesh.uv_layers) |-> "uv"]
                      \o [l \in 1..Len(mesh.vertex_colors) |-> "col"]

\* poly.vertices
polygonIndices(mesh, poly) == poly.vertices

\* The index buffer: one 'iii' record per polygon.
RECURSIVE PackIndices(_, _, _, _)
PackIndices(indices, n, iData, i) ==
    IF n > Len(indices) THEN Return(iData)
    ELSE IF Len(indices[n]) < 3
         THEN Raise("IndexError", "index", n)
         ELSE LET r == pack_into(<<"i", "i", "i">>, iData, i,
                                 <<indices[n][1], indices[n][2], indices[n][3]>>)
              IN  IF r.raised THEN r
                  ELSE PackIndices(indices, n + 1, r.value, i + calcsize(<<"i", "i", "i">>))

\* ------------------------------------------------------------------------
\* export_lights, export_cameras, export_materials
\* ------------------------------------------------------------------------

\* (light.color * light.energy)[:]
Scaled(color, k) == [c \in 1..Len(color) |-> color[c] * k]

export_light(light) ==
    LET lit == [name |-> light.name, colour |-> Scaled(light.color, light.energy)]
    IN  IF light.type = "SUN" THEN Return(lit @@ ("type" :> "directional"))
        ELSE IF light.type = "POINT"
             THEN Return(lit @@ ("type" :> "point") @@ ("distance" :> light.distance))
             ELSE Raise("TypeError", "light", <<light.type, light.name>>)

export_lights(lamps) == ListComp([i \in 1..Len(lamps) |-> export_light(lamps[i])])

\* camera.angle_x / camera.angle_y, kept as the exact quotient.
Quotient(x, y) == [num |-> x, den |-> y]

export_camera(camera) ==
    LET cam == [name |-> camera.name, near |-> camera.clip_start, far |-> camera.clip_end]
    IN  IF camera.type = "ORTHO"
        THEN Return(cam @@ ("type" :> "orthographic") @@ ("ortho_size" :> camera.ortho_scale))
        ELSE IF camera.type = "PERSP"
             THEN Return(cam @@ ("type" :> "perspective") @@ ("fov" :> camera.angle_y)
                             @@ ("aspect" :> Quotient(camera.angle_x, camera.angle_y)))
             ELSE Raise("TypeError", "camera", <<camera.type, camera.name>>)

export_cameras(cams) == ListComp([i \in 1..Len(cams) |-> export_camera(cams[i])])

\* An empty texture slot (None in material.texture_slots).
NoSlot == [filled |-> FALSE]

\* The names of the image textures of the slots that map the diffuse colour.
diffuseTextures(material) ==
    LET slots    == material.texture_slots
        textures == SelectSeq(slots, LAMBDA t : t.filled /\ t.texture.type = "IMAGE")
        mapped   == SelectSeq(textures, LAMBDA t : t.use_map_color_diffuse)
    IN  [i \in 1..Len(mapped) |-> mapped[i].texture.name]

IsDiffuse(material) == material.specular_intensity = 0

IsUnlitMutant(material) == material.use_shadeless /\ material.specular_intensity = 0

IsUnlit(material) == material.use_shadeless

export_material(material) ==
    LET colour == Scaled(material.diffuse_color, material.diffuse_intensity)
                      \o <<material.alpha>>
        tex    == IF Len(diffuseTextures(material)) > 0
                  THEN [diffuse |-> diffuseTextures(material)]
                  ELSE [k \in {} |-> None]
        mat    == [name |-> material.name, textures |-> tex]
    IN  IF IsUnlit(material)
        THEN Return(mat @@ ("unlit" :> [colour |-> colour]))
        ELSE IF IsDiffuse(material)
             THEN Return(mat @@ ("diffuse" :>
                            [ambient |-> <<material.ambient, material.ambient,
                                           material.ambient, 1>>,
                             colour  |-> colour]))
             ELSE Raise("TypeError", "material", material.name)

export_materials(mats) == ListComp([i \in 1..Len(mats) |-> export_material(mats[i])])

\* ------------------------------------------------------------------------
\* execute and process, step by step
\* ------------------------------------------------------------------------

NoLocals ==
    [k |-> 0, results |-> <<>>, me |-> None, vertexSize |-> 0, vertices |-> <<>>,
     vData |-> <<>>, i |-> 0, n |-> 0, writes |-> <<>>, iData |-> <<>>]

Meta == [file |-> "scene", blender |-> "2.79", exporter_version |-> "0.0.0"]

\* An exception leaves process and execute: nothing else runs.
Abort(r) ==
    /\ pc' = "raised"
    /\ exc' = r.exc
    /\ UNCHANGED <<data, fout, local>>

Host == <<objects, layout, lights, cameras, materials, pretty_print>>

\* 'objects': self.export_objects(scene)
ExportObjects ==
    /\ pc = "objects"
    /\ LET r == export_objects(objects, layout)
       IN  IF r.raised THEN Abort(r)
           ELSE /\ data' = data @@ ("objects" :> r.value)
                /\ pc' = "meshes"
                /\ UNCHANGED <<exc, fout, local>>
    /\ UNCHANGED <<Host, meshes, ops>>

\* 'meshes': self.export_meshes(scene): the list comprehension starts.
ExportMeshes ==
    /\ pc = "meshes"
    /\ IF Len(meshes) = 0
       THEN /\ data' = data @@ ("meshes" :> <<>>)
            /\ pc' = "lights"
            /\ UNCHANGED local
       ELSE /\ local' = [NoLocals EXCEPT !.k = 1]
            /\ pc' = "triangulate"
            /\ UNCHANGED data
    /\ UNCHANGED <<Host, meshes, exc, fout, ops>>

\* export_mesh: me = {...}; the bmesh round trip that triangulates the mesh.
Triangulate ==
    /\ pc = "triangulate"
    /\ \E p \in 0..1 :
          meshes' = [meshes EXCEPT ![local.k] = triangulate(meshes[local.k], p)]
    /\ local' = [local EXCEPT !.me = [name |-> meshes[local.k].name]]
    /\ ops' = Append(ops, <<"triangulate", local.k>>)
    /\ pc' = "calc_normals"
    /\ UNCHANGED <<Host, data, exc, fout>>

\* mesh.calc_normals_split(); mesh.calc_tessface()
CalcNormals ==
    /\ pc = "calc_normals"
    /\ meshes' = [meshes EXCEPT ![local.k] = calc_normals_split(meshes[local.k])]
    /\ ops' = Append(ops, <<"calc_normals_split", local.k>>)
    /\ pc' = "extract"
    /\ UNCHANGED <<Host, data, exc, fout, local>>

\* vertexSize; vertices = [Vertex(mesh, loop) ...]; vData = bytearray(...); i = 0
ExtractVertices ==
    /\ pc = "extract"
    /\ LET mesh == meshes[local.k]
           vs   == [j \in 1..Len(mesh.loops) |-> Vertex(mesh, mesh.loops[j])]
       IN  /\ local' = [local EXCEPT
                           !.vertexSize = vertexSize(mesh),
                           !.vertices   = vs,
                           !.vData      = bytearray(vertexSize(mesh) * Len(vs)),
                           !.writes     = [b \in 1..(vertexSize(mesh) * Len(vs)) |-> 0],
                           !.i          = 0,
                           !.n          = 1]
           /\ pc' = IF Len(vs) = 0 THEN "encode" ELSE "pack_vertex"
    /\ ops' = Append(ops, <<"read_loops", local.k>>)
    /\ UNCHANGED <<Host, meshes, data, exc, fout>>

\* One iteration of "for vertex in vertices".
PackVertex ==
    /\ pc = "pack_vertex"
    /\ LET r == PackSegments(Segments(local.vertices[local.n]), 1,
                             local.vData, local.i, local.writes)
       IN  IF r.raised THEN Abort(r)
           ELSE /\ local' = [local EXCEPT !.vData  = r.value.vData,
                                          !.i      = r.value.i,
                                          !.writes = r.value.writes,
                                          !.n      = local.n + 1]
                /\ pc' = IF local.n = Len(local.vertices) THEN "encode" ELSE "pack_vertex"
                /\ UNCHANGED <<data, exc, fout>>
    /\ UNCHANGED <<Host, meshes, ops>>

\* me['vertices'] and me['vlayout']
EncodeVertices ==
    /\ pc = "encode"
    /\ local' = [local EXCEPT !.me = local.me @@ ("vertices" :> DataUri(local.vData))
                                              @@ ("vlayout" :> vertexDescription(meshes[local.k]))]
    /\ pc' = "indices"
    /\ UNCHANGED <<Host, meshes, data, exc, fout, ops>>

\* The indices; return me; the next mesh, or the end of export_meshes.
ExportIndices ==
    /\ pc = "indices"
    /\ LET mesh    == meshes[local.k]
           indices == [f \in 1..Len(mesh.polygons) |-> polygonIndices(mesh, mesh.polygons[f])]
           r       == PackIndices(indices, 1,
                                  bytearray(calcsize(<<"i", "i", "i">>) * Len(indices)), 0)
       IN  IF r.raised THEN Abort(r)
           ELSE LET me  == local.me @@ ("indices" :> DataUri(r.value))
                    res == Append(local.results, me)
                IN  /\ exc' = exc
                    /\ fout' = fout
                    /\ IF local.k = Len(meshes)
                       THEN /\ data' = data @@ ("meshes" :> res)
                            /\ local' = [local EXCEPT !.iData = r.value, !.me = me,
                                                      !.results = res]
                            /\ pc' = "lights"
                       ELSE /\ local' = [NoLocals EXCEPT !.k = local.k + 1, !.results = res]
                            /\ pc' = "triangulate"
                            /\ data' = data
    /\ ops' = Append(ops, <<"read_polygons", local.k>>)
    /\ UNCHANGED <<Host, meshes>>

\* 'lights': self.export_lights(scene)
ExportLights ==
    /\ pc = "lights"
    /\ LET r == export_lights(lights)
       IN  IF r.raised THEN Abort(r)
           ELSE /\ data' = data @@ ("lights" :> r.value)
                /\ pc' = "cameras"
                /\ UNCHANGED <<exc, fout, local>>
    /\ UNCHANGED <<Host, meshes, ops>>

\* 'cameras': self.export_cameras(scene)
ExportCameras ==
    /\ pc = "cameras"
    /\ LET r == export_cameras(cameras)
       IN  IF r.raised THEN Abort(r)
           ELSE /\ data' = data @@ ("cameras" :> r.value)
                /\ pc' = "materials"
                /\ UNCHANGED <<exc, fout, local>>
    /\ UNCHANGED <<Host, meshes, ops>>

\* 'materials': self.export_materials(scene); return data
ExportMaterials ==
    /\ pc = "materials"
    /\ LET r == export_materials(materials)
       IN  IF r.raised THEN Abort(r)
           ELSE /\ data' = data @@ ("materials" :> r.value)
                /\ pc' = "write"
                /\ UNCHANGED <<exc, fout, local>>
    /\ UNCHANGED <<Host, meshes, ops>>

\* json.dump(data, fout, indent=indent, sort_keys=True, check_circular=False)
json_dump(doc, indent) == [document |-> doc, indent |-> indent, sort_keys |-> TRUE]

\* The output file before open(self.filepath, 'w').
NoFile == [opened |-> FALSE, written |-> <<>>]

\* The file after the with block: the document, and a newline if pretty_print.
Written(doc, pretty) ==
    [opened  |-> TRUE,
     written |-> <<json_dump(doc, IF pretty THEN 4 ELSE None)>>
                 \o (IF pretty THEN <<[text |-> "\n"]>> ELSE <<>>)]

WriteFileMutant ==
    /\ pc \in {"write", "raised"}
    /\ ~fout.opened
    /\ fout' = Written(data, pretty_print)
    /\ pc' = IF pc = "write" THEN "finished" ELSE pc
    /\ UNCHANGED <<Host, meshes, data, exc, local, ops>>

\* with open(self.filepath, 'w') as fout: ...; return {'FINISHED'}
WriteFile ==
    /\ pc = "write"
    /\ fout' = Written(data, pretty_print)
    /\ pc' = "finished"
    /\ UNCHANGED <<Host, meshes, data, exc, local, ops>>

Next ==
    \/ ExportObjects
    \/ ExportMeshes
    \/ Triangulate
    \/ CalcNormals
    \/ ExtractVertices
    \/ PackVertex
    \/ EncodeVertices
    \/ ExportIndices
    \/ ExportLights
    \/ ExportCameras
    \/ ExportMaterials
    \/ WriteFile

\* ------------------------------------------------------------------------
\* The host documents the export is run on
\* ------------------------------------------------------------------------

MaxObjects == 3

MaxVerts == 4

MaxFaces == 2

MaxLayers == 1

MaxSlots == 2

ObjectTypes == {"MESH", "EMPTY", "CAMERA", "LAMP", "SPEAKER"}

LightTypes == {"SUN", "POINT", "SPOT"}

CameraTypes == {"ORTHO", "PERSP", "PANO"}

Attr(n, t) == [name |-> n, type |-> t]

LayoutA ==
    <<[key |-> "stats",
       attributes |-> <<Attr("hp", "int"), Attr("speed", "float"),
                        Attr("alive", "bool"), Attr("tag", "string")>>],
      [key |-> "shape",
       attributes |-> <<Attr("cell2", "ivec2"), Attr("cell3", "ivec3"), Attr("cell4", "ivec4"),
                        Attr("uv", "vec2"), Attr("dir", "vec3"), Attr("plane", "vec4"),
                        Attr("tint", "colour")>>]>>

LayoutB ==
    <<[key |-> "stats", attributes |-> <<Attr("hp", "int")>>],
      [key |-> "physics",
       attributes |-> <<Attr("force", "vec3"), Attr("inertia", "mat3"),
                        Attr("mass", "float")>>]>>

LayoutC == <<[key |-> "marker", attributes |-> <<>>]>>

Layouts == {<<>>, LayoutA, LayoutB, LayoutC}

Keys(lay) == {lay[i].key : i \in 1..Len(lay)}

Arity(type) ==
    IF type \in {"ivec2", "vec2"} THEN 2
    ELSE IF type \in {"ivec4", "vec4"} THEN 4
    ELSE 3

\* The value the host stores for an attribute of the given declared type.
HostValue(type, seed) ==
    IF type = "int" THEN seed
    ELSE IF type = "float" THEN seed + 1
    ELSE IF type = "bool" THEN TRUE
    ELSE IF type = "string" THEN "text"
    ELSE [array |-> [c \in 1..Arity(type) |-> seed + c]]

Component(lay, i, active) ==
    [internal___active |-> active,
     values |-> [n \in {lay[i].attributes[a].name : a \in 1..Len(lay[i].attributes)} |->
                    LET a == CHOOSE b \in 1..Len(lay[i].attributes) :
                                 lay[i].attributes[b].name = n
                    IN  HostValue(lay[i].attributes[a].type, 10 * a)]]

\* obj.data of an object that has none.
NoData == [absent |-> TRUE]

HostObject(o, type, parent, lay, active) ==
    [name |-> <<"Object", o>>,
     type |-> type,
     parent |-> parent,
     location |-> <<10 * o + 1, 10 * o + 2, 10 * o + 3>>,
     rotation_quaternion |-> <<100 * o + 1, 100 * o + 2, 100 * o + 3, 100 * o + 4>>,
     scale |-> <<10 * o + 4, 10 * o + 5, 10 * o + 6>>,
     data |-> IF type = "EMPTY" THEN NoData ELSE [name |-> <<type, o>>],
     components |-> [k \in Keys(lay) |->
                        Component(lay, CHOOSE i \in 1..Len(lay) : lay[i].key = k,
                                  k \in active)]]

\* Whether following parent links from o ends at no parent within fuel steps.
RECURSIVE EndsAtRoot(_, _, _)
EndsAtRoot(parent, o, fuel) ==
    IF o = 0 THEN TRUE
    ELSE IF fuel = 0 THEN FALSE
         ELSE EndsAtRoot(parent, parent[o], fuel - 1)

\* The parent relations of n objects without a cycle.
Forests(n) ==
    {parent \in [1..n -> 0..n] : \A o \in 1..n : EndsAtRoot(parent, o, n)}

HostObjects(n, parent, type, lay, active) ==
    [o \in 1..n |-> HostObject(o, type[o], parent[o], lay, active[o])]

\* A mesh of nv vertices with the given faces (lists of vertex indices),
\* U UV layers and C colour layers.
Corner(faces) ==
    Flatten([f \in 1..Len(faces) |->
                [k \in 1..Len(faces[f]) |-> faces[f][k]]])

LoopStart(faces, f) == Len(Corner(SubSeq(faces, 1, f - 1)))

HostMesh(m, nv, faces, U, C) ==
    LET corners == Corner(faces)
    IN  [name |-> <<"Mesh", m>>,
         vertices |-> [v \in 1..nv |->
                          [co     |-> <<10 * v + 1, 10 * v + 2, 10 * v + 3>>,
                           normal |-> <<10 * v + 4, 10 * v + 5, 10 * v + 6>>]],
         polygons |-> [f \in 1..Len(faces) |->
                          [vertices   |-> faces[f],
                           loop_start |-> LoopStart(faces, f),
                           loop_total |-> Len(faces[f])]],
         loops |-> [j \in 1..Len(corners) |->
                       [vertex_index |-> corners[j], index |-> j - 1, normal |-> <<0, 0, 0>>]],
         uv_layers |-> [l \in 1..U |->
                           [data |-> [j \in 1..Len(corners) |->
                                         [uv |-> <<200 + 20 * j + 2 * l,
                                                   200 + 20 * j + 2 * l + 1>>]]]],
         vertex_colors |-> [l \in 1..C |->
                               [data |-> [j \in 1..Len(corners) |->
                                             [color |-> <<500 + 30 * j + 3 * l,
                                                          500 + 30 * j + 3 * l + 1,
                                                          500 + 30 * j + 3 * l + 2>>]]]]]

\* A face: size consecutive vertices (cyclically) from start.
Run(start, size, nv) == [k \in 1..size |-> (start + k - 1) % nv]

\* The faces of 3 to nv vertices that start at the first or the last vertex.
Faces(nv) == {Run(s, z, nv) : s \in {0, nv - 1}, z \in 3..nv}

FaceLists(nv, n) == UNION {[1..k -> Faces(nv)] : k \in 0..n}

QuadMesh(m) == HostMesh(m, 4, <<Run(0, 4, 4)>>, 1, 0)

HostLight(type) ==
    [name |-> <<"Lamp", type>>, color |-> <<1, 2, 3>>, energy |-> 2,
     type |-> type, distance |-> 25]

HostCamera(type) ==
    [name |-> <<"Camera", type>>, clip_start |-> 1, clip_end |-> 100, type |-> type,
     ortho_scale |-> 7, angle_x |-> 10, angle_y |-> 8]

Slots ==
    {NoSlot,
     [filled |-> TRUE, texture |-> [type |-> "IMAGE", name |-> "wood"],
      use_map_color_diffuse |-> TRUE],
     [filled |-> TRUE, texture |-> [type |-> "IMAGE", name |-> "bump"],
      use_map_color_diffuse |-> FALSE],
     [filled |-> TRUE, texture |-> [type |-> "CLOUDS", name |-> "noise"],
      use_map_color_diffuse |-> TRUE]}

SlotLists == UNION {[1..k -> Slots] : k \in 0..MaxSlots}

HostMaterial(m, shadeless, specular, slots) ==
    [name |-> <<"Material", m>>, use_shadeless |-> shadeless,
     specular_intensity |-> specular, diffuse_color |-> <<1, 2, 3>>,
     diffuse_intensity |-> 2, alpha |-> 1, ambient |-> 5, texture_slots |-> slots]

Seqs1(S) == {<<>>} \cup {<<x>> : x \in S}

\* The state in which process starts, for given host collections.
Start(at, objs, lay, ms, ls, cs, mats, pretty) ==
    /\ pc = at
    /\ objects = objs
    /\ layout = lay
    /\ meshes = ms
    /\ lights = ls
    /\ cameras = cs
    /\ materials = mats
    /\ pretty_print = pretty
    /\ data = ("meta" :> Meta)
    /\ exc = None
    /\ fout = NoFile
    /\ local = NoLocals
    /\ ops = <<>>

\* Small object collections, each with its component layout: no object, one
\* object of each kind, a mesh with a child of each kind, and an object with
\* a component whose schema has an unknown attribute type.
SmallObjects ==
    {[objs |-> <<>>, lay |-> LayoutA]}
    \cup {[objs |-> HostObjects(1, <<0>>, <<t>>, LayoutA, <<{"stats", "shape"}>>),
           lay  |-> LayoutA] : t \in ObjectTypes}
    \cup {[objs |-> HostObjects(2, <<0, 1>>, <<"MESH", t>>, LayoutA, <<{}, {"stats"}>>),
           lay  |-> LayoutA] : t \in ObjectTypes}
    \cup {[objs |-> HostObjects(1, <<0>>, <<"MESH">>, LayoutB, <<{"stats", "physics"}>>),
           lay  |-> LayoutB]}

\* A whole export of a small document of every collection.
Init ==
    \E o \in SmallObjects, pretty \in BOOLEAN,
       ms \in {<<>>, <<QuadMesh(1)>>},
       ls \in Seqs1({HostLight(t) : t \in LightTypes}),
       cs \in Seqs1({HostCamera(t) : t \in CameraTypes}),
       mats \in Seqs1({HostMaterial(1, sh, sp, <<>>) : sh \in BOOLEAN, sp \in {0, 1}}) :
        Start("objects", o.objs, o.lay, ms, ls, cs, mats, pretty)

Spec == Init /\ [][Next]_vars

\* export_objects on every hierarchy of objects of every kind, and on every
\* assignment of active components to objects of the supported kinds.
InitObjects ==
    \E n \in 0..MaxObjects :
    \E parent \in Forests(n) :
       \/ \E type \in [1..n -> ObjectTypes] :
             Start("objects",
                   HostObjects(n, parent, type, LayoutA,
                               [o \in 1..n |-> IF o = 1 THEN {"shape"} ELSE {}]),
                   LayoutA, <<>>, <<>>, <<>>, <<>>, TRUE)
       \/ \E lay \in Layouts :
          \E active \in [1..n -> SUBSET Keys(lay)] :
             Start("objects",
                   HostObjects(n, parent,
                               [o \in 1..n |-> <<"MESH", "CAMERA", "LAMP">>[(o % 3) + 1]],
                               lay, active),
                   lay, <<>>, <<>>, <<>>, <<>>, TRUE)

NextObjects == ExportObjects

SpecObjects == InitObjects /\ [][NextObjects]_vars

\* export_meshes on one mesh of every shape, and on two meshes.
InitMeshes ==
    \E nv \in 3..MaxVerts, U \in 0..MaxLayers, C \in 0..MaxLayers :
       \/ \E faces \in FaceLists(nv, MaxFaces) :
             Start("meshes", <<>>, <<>>, <<HostMesh(1, nv, faces, U, C)>>,
                   <<>>, <<>>, <<>>, TRUE)
       \/ \E faces \in FaceLists(nv, 1) :
             Start("meshes", <<>>, <<>>, <<HostMesh(1, nv, faces, U, C), QuadMesh(2)>>,
                   <<>>, <<>>, <<>>, TRUE)

NextMeshes ==
    \/ ExportMeshes
    \/ Triangulate
    \/ CalcNormals
    \/ ExtractVertices
    \/ PackVertex
    \/ EncodeVertices
    \/ ExportIndices

SpecMeshes == InitMeshes /\ [][NextMeshes]_vars

\* export_materials on every material, alone or followed by a second one.
InitMaterials ==
    \E sh \in BOOLEAN, sp \in {0, 1, 2}, slots \in SlotLists :
    \E more \in Seqs1({HostMaterial(2, sh2, sp2, <<>>) : sh2 \in BOOLEAN, sp2 \in {0, 1}}) :
        Start("materials", <<>>, <<>>, <<>>, <<>>, <<>>,
              <<HostMaterial(1, sh, sp, slots)>> \o more, TRUE)

NextMaterials == ExportMaterials

SpecMaterials == InitMaterials /\ [][NextMaterials]_vars

\* ------------------------------------------------------------------------
\* Properties of execute and process
\* ------------------------------------------------------------------------

Sections == {"objects", "meshes", "lights", "cameras", "materials"}

\* Something in the host document that a step of process rejects.
HasUnsupported ==
    \/ \E o \in 1..Len(objects) : objects[o].type \notin {"MESH", "EMPTY", "CAMERA", "LAMP"}
    \/ \E o \in 1..Len(objects), i \in 1..Len(layout) :
          /\ objects[o].components[layout[i].key].internal___active
          /\ \E a \in 1..Len(layout[i].attributes) :
                layout[i].attributes[a].type \notin ScalarTypes \cup VectorTypes
    \/ \E l \in 1..Len(lights) : lights[l].type \notin {"SUN", "POINT"}
    \/ \E c \in 1..Len(cameras) : cameras[c].type \notin {"ORTHO", "PERSP"}
    \/ \E m \in 1..Len(materials) :
          ~materials[m].use_shadeless /\ materials[m].specular_intensity # 0

\* C1: the output file is opened and written only after export_objects,
\* export_meshes, export_lights, export_cameras and export_materials have all
\* returned; when any of them raises, and so whenever the document holds
\* something unsupported, execute ends without a file.
C1_NoPartialOutput ==
    /\ fout.opened =>
          /\ pc = "finished"
          /\ Sections \subseteq DOMAIN data
          /\ fout.written[1].document = data
          /\ ~HasUnsupported
    /\ pc = "raised" => fout = NoFile
    /\ HasUnsupported => pc # "finished" /\ pc # "write"

\* An unsupported material stops an export whose objects, meshes, lights and
\* cameras were already exported, and no file exists.
C1_Witness ==
    /\ pc = "raised"
    /\ exc.what = "material"
    /\ {"objects", "meshes", "lights", "cameras"} \subseteq DOMAIN data
    /\ Len(data["meshes"]) = 1
    /\ fout = NoFile

\* ------------------------------------------------------------------------
\* Properties of export_objects
\* ------------------------------------------------------------------------

\* The nodes of a forest in depth-first order, parents before children.
RECURSIVE Preorder(_)
Preorder(forest) ==
    Flatten([i \in 1..Len(forest) |->
                <<forest[i]>> \o (IF "children" \in DOMAIN forest[i]
                                  THEN Preorder(forest[i].children) ELSE <<>>)])

\* The exported nodes, once export_objects has returned.
Exported == Preorder(data["objects"])

\* The host object a node was built from (names are unique).
Source(node) == CHOOSE o \in 1..Len(objects) : objects[o].name = node.name

Payload(node) == DOMAIN node \cap {"mesh", "camera", "light"}

Returned == pc = "meshes"

\* C2: the payload of a node is decided by the kind of its object: MESH gives
\* exactly 'mesh', CAMERA exactly 'camera', LAMP exactly 'light', each with
\* the name of the object's data; EMPTY gives a node without payload and no
\* error; only a kind outside these four (or an unsupported attribute type)
\* makes export_objects raise.
C2_KindDecidesPayload ==
    /\ Returned =>
          \A n \in 1..Len(Exported) :
             LET node == Exported[n]
                 obj  == objects[Source(node)]
             IN  /\ obj.type = "MESH" => Payload(node) = {"mesh"} /\ node.mesh = obj.data.name
                 /\ obj.type = "CAMERA" =>
                       Payload(node) = {"camera"} /\ node.camera = obj.data.name
                 /\ obj.type = "LAMP" => Payload(node) = {"light"} /\ node.light = obj.data.name
                 /\ obj.type = "EMPTY" => Payload(node) = {}
    /\ pc = "raised" =>
          /\ exc.kind = "TypeError"
          /\ exc.what = "object" =>
                \E o \in 1..Len(objects) :
                   /\ objects[o].type \notin {"MESH", "EMPTY", "CAMERA", "LAMP"}
                   /\ exc.arg = <<objects[o].type, objects[o].name>>

\* The objects whose parent is o, as the host lists them.
ChildrenOf(o) == {c \in 1..Len(objects) : objects[c].parent = o}

ActiveKeys(o) ==
    {layout[i].key : i \in {j \in 1..Len(layout) :
                               objects[o].components[layout[j].key].internal___active}}

\* C3: a node has 'children' exactly when its object has a child, and then
\* one node per child in the order of the host collection; it has
\* 'components' exactly when a component of the object is active; neither
\* key ever holds an empty list or map.
C3_OptionalKeys ==
    Returned =>
       \A n \in 1..Len(Exported) :
          LET node == Exported[n]
              o    == Source(node)
          IN  /\ "children" \in DOMAIN node <=> ChildrenOf(o) # {}
              /\ "children" \in DOMAIN node =>
                    /\ Len(node.children) = Cardinality(ChildrenOf(o))
                    /\ Len(node.children) > 0
                    /\ \A i \in 1..Len(node.children) : Source(node.children[i]) \in ChildrenOf(o)
                    /\ \A i, j \in 1..Len(node.children) :
                          i < j => Source(node.children[i]) < Source(node.children[j])
              /\ "components" \in DOMAIN node <=> ActiveKeys(o) # {}
              /\ "components" \in DOMAIN node => DOMAIN node.components # {}

\* A node with two children and an active component, and a node with
\* neither key.
C3_Witness ==
    /\ Returned
    /\ \E n, m \in 1..Len(Exported) :
          /\ "children" \in DOMAIN Exported[n]
          /\ Len(Exported[n].children) = 2
          /\ "components" \in DOMAIN Exported[n]
          /\ DOMAIN Exported[m] = {"name", "translation", "rotation", "scale", "mesh"}

Supported(type) == type \in ScalarTypes \cup VectorTypes

\* An active component of some object with an attribute of unsupported type.
BadAttributes ==
    UNION {{<<o, i, a>> : a \in {b \in 1..Len(layout[i].attributes) :
                                    ~Supported(layout[i].attributes[b].type)}} :
           <<o, i>> \in {x \in (1..Len(objects)) \X (1..Len(layout)) :
                            objects[x[1]].components[layout[x[2]].key].internal___active}}

\* C7: a component key is in a node's components exactly when the object's
\* instance is active; an inactive instance is skipped (its attributes are
\* not type-checked, so they raise nothing); of an active instance every
\* attribute of scalar type is copied, every attribute of vector type becomes
\* the list of its components, and any other type raises.
C7_Components ==
    /\ Returned =>
          /\ BadAttributes = {}
          /\ \A n \in 1..Len(Exported), i \in 1..Len(layout) :
                LET node  == Exported[n]
                    comp  == objects[Source(node)].components[layout[i].key]
                    comps == IF "components" \in DOMAIN node THEN node.components
                             ELSE [k \in {} |-> None]
                    attrs == layout[i].attributes
                IN  /\ layout[i].key \in DOMAIN comps <=> comp.internal___active
                    /\ comp.internal___active =>
                          /\ DOMAIN comps[layout[i].key] =
                                {attrs[a].name : a \in 1..Len(attrs)}
                          /\ \A a \in 1..Len(attrs) :
                                LET out == comps[layout[i].key][attrs[a].name]
                                    in  == comp.values[attrs[a].name]
                                IN  /\ attrs[a].type \in ScalarTypes => out = in
                                    /\ attrs[a].type \in VectorTypes =>
                                          /\ DOMAIN out = 1..Len(in.array)
                                          /\ \A c \in 1..Len(in.array) : out[c] = in.array[c]
    /\ (pc = "raised" /\ exc.what = "attribute") =>
          \E b \in BadAttributes :
             exc.arg = <<layout[b[2]].attributes[b[3]].type,
                         layout[b[2]].attributes[b[3]].name, layout[b[2]].key>>
    /\ (pc # "objects" /\ BadAttributes # {}) => pc = "raised"

\* One object has the vector component active and its vec3 attribute became
\* a list of 3, another object has the same component inactive, and the
\* schema also holds scalar attributes that were copied.
C7_Witness ==
    /\ Returned
    /\ layout = LayoutA
    /\ \E n, m \in 1..Len(Exported) :
          /\ "components" \in DOMAIN Exported[n]
          /\ DOMAIN Exported[n].components = {"stats", "shape"}
          /\ Len(Exported[n].components["shape"]["dir"]) = 3
          /\ Exported[n].components["stats"]["tag"] = "text"
          /\ "components" \in DOMAIN Exported[m]
          /\ DOMAIN Exported[m].components = {"stats"}

\* The inverse of the reordering (w,x,y,z) -> (x,y,z,w).
InverseOrder(r) == <<r[4], r[1], r[2], r[3]>>

\* C8: the rotation of a node is the host quaternion (w,x,y,z) as (x,y,z,w),
\* the inverse reordering gives the host quaternion back, and translation and
\* scale are the host's values in the host's order.
C8_Rotation ==
    Returned =>
       \A n \in 1..Len(Exported) :
          LET node == Exported[n]
              obj  == objects[Source(node)]
              q    == obj.rotation_quaternion
          IN  /\ node.rotation = <<q[2], q[3], q[4], q[1]>>
              /\ InverseOrder(node.rotation) = q
              /\ node.translation = obj.location
              /\ node.scale = obj.scale

\* Three nodes were exported and the first one's w went last.
C8_Witness ==
    /\ Returned
    /\ Len(Exported) = 3
    /\ Exported[1].rotation[4] = objects[Source(Exported[1])].rotation_quaternion[1]
    /\ Exported[1].rotation[4] # Exported[1].rotation[1]

\* Every object is of a supported kind and no active component has an
\* attribute of unsupported type.
AllSupported ==
    /\ \A o \in 1..Len(objects) : objects[o].type \in {"MESH", "EMPTY", "CAMERA", "LAMP"}
    /\ BadAttributes = {}

Roots == SelectSeq([o \in 1..Len(objects) |-> o], LAMBDA o : objects[o].parent = 0)

\* The node of object o is a child of the node of its parent.
Nested(o) ==
    \E n \in 1..Len(Exported) :
       /\ Source(Exported[n]) = objects[o].parent
       /\ "children" \in DOMAIN Exported[n]
       /\ \E i \in 1..Len(Exported[n].children) : Exported[n].children[i].name = objects[o].name

\* C10: on an acyclic hierarchy of supported objects export_objects returns a
\* forest whose top-level nodes are the parentless objects in collection
\* order, with exactly one node for every object, nested under the node of
\* its parent.
C10_Forest ==
    (pc # "objects" /\ AllSupported) =>
       /\ Returned
       /\ Len(data["objects"]) = Len(Roots)
       /\ \A i \in 1..Len(Roots) : data["objects"][i].name = objects[Roots[i]].name
       /\ Len(Exported) = Len(objects)
       /\ \A o \in 1..Len(objects) : \E n \in 1..Len(Exported) : Exported[n].name = objects[o].name
       /\ \A o \in 1..Len(objects) : objects[o].parent # 0 => Nested(o)

\* ------------------------------------------------------------------------
\* Properties of export_mesh
\* ------------------------------------------------------------------------

\* The mesh export_mesh is working on.
Mesh == meshes[local.k]

\* (3 + 3 + 2U + 3C) * 4 for the mesh's U UV layers and C colour layers.
Stride == (3 + 3 + 2 * Len(Mesh.uv_layers) + 3 * Len(Mesh.vertex_colors)) * 4

\* The floats of the vertex record of loop j (1-based), taken from the mesh.
RecordOf(j) ==
    LET v == Mesh.vertices[Mesh.loops[j].vertex_index + 1]
    IN  v.co \o v.normal
        \o Flatten([l \in 1..Len(Mesh.uv_layers) |-> Mesh.uv_layers[l].data[j].uv])
        \o Flatten([l \in 1..Len(Mesh.vertex_colors) |-> Mesh.vertex_colors[l].data[j].color])

\* The floats stored in the vertex buffer at record position p (0-based).
StoredAt(p) ==
    [f \in 1..(Stride \div 4) |-> Unpack1(local.vData, p * Stride + 4 * (f - 1))]

Packing == pc \in {"pack_vertex", "encode", "indices"}

\* C4: the vertex buffer has stride * L bytes with stride = (3+3+2U+3C)*4;
\* the records of the loops are written one after the other in loop order;
\* after the last one the offset is the length of the buffer, every byte has
\* been written exactly once and no write went past the end.
C4_VertexBuffer ==
    /\ pc # "raised"
    /\ Packing =>
          /\ local.vertexSize = Stride
          /\ Len(local.vertices) = Len(Mesh.loops)
          /\ Len(local.vData) = Stride * Len(Mesh.loops)
          /\ local.i = Stride * (local.n - 1)
          /\ \A b \in 1..Len(local.vData) :
                local.writes[b] = IF b <= local.i THEN 1 ELSE 0
          /\ \A j \in 1..(local.n - 1) : StoredAt(j - 1) = RecordOf(j)
    /\ pc \in {"encode", "indices"} =>
          /\ local.n = Len(Mesh.loops) + 1
          /\ local.i = Len(local.vData)

\* Six loops with a UV and a colour layer: 6 records of 44 bytes.
C4_Witness ==
    /\ pc = "encode"
    /\ Len(Mesh.uv_layers) = 1
    /\ Len(Mesh.vertex_colors) = 1
    /\ Len(Mesh.loops) = 6
    /\ local.i = 264
    /\ Len(local.vData) = 264

\* The index buffer of the mesh just exported.
IndexAt(f, c) == Unpack1(local.iData, 12 * (f - 1) + 4 * c)

\* C5: the index buffer has one int32 triple per face in face order, and the
\* value for corner c of face f is the position in the vertex buffer of the
\* record built from that corner's loop: it is below the loop count and the
\* record there holds the position of the corner's mesh vertex.
C5_IndicesAddressVertexBuffer ==
    (pc = "lights" /\ local.k > 0) =>
       /\ Len(local.iData) = 12 * Len(Mesh.polygons)
       /\ \A f \in 1..Len(Mesh.polygons), c \in 0..2 :
             /\ IndexAt(f, c) \in 0..(Len(Mesh.loops) - 1)
             /\ SubSeq(StoredAt(IndexAt(f, c)), 1, 3)
                   = Mesh.vertices[Mesh.polygons[f].vertices[c + 1] + 1].co

\* The host calls made on mesh m so far, in order.
OpsOn(m) ==
    LET mine == SelectSeq(ops, LAMBDA e : e[2] = m)
    IN  [i \in 1..Len(mine) |-> mine[i][1]]

MeshSteps == <<"triangulate", "calc_normals_split", "read_loops", "read_polygons">>

Triangulated(mesh) ==
    /\ \A f \in 1..Len(mesh.polygons) : Len(mesh.polygons[f].vertices) = 3
    /\ Len(mesh.loops) = 3 * Len(mesh.polygons)

\* C9: on every mesh the calls are, in this order, the triangulation, the
\* split normals, the read of the loops and the read of the faces: nothing
\* is read before the triangulation, which happens once per mesh, and when
\* the index buffer is packed every face has exactly 3 vertices.
C9_MeshStepOrder ==
    /\ pc # "raised"
    /\ \A m \in 1..Len(meshes) :
          /\ Len(OpsOn(m)) <= Len(MeshSteps)
          /\ OpsOn(m) = SubSeq(MeshSteps, 1, Len(OpsOn(m)))
          /\ (m < local.k \/ pc = "lights") => OpsOn(m) = MeshSteps
    /\ pc \in {"calc_normals", "extract", "pack_vertex", "encode", "indices"} =>
          Triangulated(Mesh)
    /\ pc \in {"extract", "pack_vertex", "encode", "indices"} =>
          \A j \in 1..Len(Mesh.loops) :
             Mesh.loops[j].normal = Mesh.vertices[Mesh.loops[j].vertex_index + 1].normal
    /\ (pc = "lights" /\ local.k > 0) =>
          /\ Len(data["meshes"]) = Len(meshes)
          /\ \A m \in 1..Len(meshes) : Triangulated(meshes[m])

\* Two meshes were exported, the second one a quad that became two
\* triangles, with the four calls made on each.
C9_Witness ==
    /\ pc = "lights"
    /\ Len(meshes) = 2
    /\ Len(meshes[2].polygons) = 2
    /\ Len(ops) = 8
    /\ Len(data["meshes"]) = 2

\* ------------------------------------------------------------------------
\* Properties of export_material
\* ------------------------------------------------------------------------

Shading(record) == DOMAIN record \cap {"unlit", "diffuse"}

Rejected(material) == ~material.use_shadeless /\ material.specular_intensity # 0

\* C6: a shadeless material gives a record with 'unlit' and without
\* 'diffuse', whatever its specular intensity; a material that is not
\* shadeless and has specular intensity 0 gives one with 'diffuse' and
\* without 'unlit'; any other material raises; no record has both keys or
\* neither.
C6_MaterialClasses ==
    /\ pc = "write" =>
          /\ Len(data["materials"]) = Len(materials)
          /\ \A m \in 1..Len(materials) :
                LET material == materials[m]
                    record   == data["materials"][m]
                IN  /\ material.use_shadeless => Shading(record) = {"unlit"}
                    /\ (~material.use_shadeless /\ material.specular_intensity = 0) =>
                          Shading(record) = {"diffuse"}
                    /\ Cardinality(Shading(record)) = 1
                    /\ ~Rejected(material)
    /\ pc = "raised" =>
          /\ exc.what = "material"
          /\ \E m \in 1..Len(materials) :
                /\ Rejected(materials[m])
                /\ exc.arg = materials[m].name
                /\ \A k \in 1..(m - 1) : ~Rejected(materials[k])
    /\ (pc # "materials" /\ \E m \in 1..Len(materials) : Rejected(materials[m])) =>
          pc = "raised"

\* A shadeless material with specular intensity 2 and a diffuse image
\* texture was exported as unlit, followed by a diffuse one.
C6_Witness ==
    /\ pc = "write"
    /\ Len(materials) = 2
    /\ materials[1].use_shadeless
    /\ materials[1].specular_intensity = 2
    /\ "unlit" \in DOMAIN data["materials"][1]
    /\ "diffuse" \in DOMAIN data["materials"][1].textures
    /\ "diffuse" \in DOMAIN data["materials"][2]

====
